---- MODULE Spec2Model ----
(***************************************************************************)
(* Model of the seaworthy-rate-engine backend relay.                       *)
(*                                                                         *)
(* Two revisions of the server are modelled:                               *)
(*   - the property-backed revision (src/server.js), which keeps the       *)
(*     checklist state in CRM deal properties;                             *)
(*   - the in-memory revision (src/unnamed/part_000), which keeps it in    *)
(*     the process-lifetime map checklistStore.                            *)
(* The variable revision says which of the two is deployed.                *)
(*                                                                         *)
(* Text is modelled as a sequence of one-character strings, so that        *)
(* JSON.stringify, JSON.parse, stripHtmlTags and decodeHtmlEntities are    *)
(* computed character by character as the code computes them.              *)
(***************************************************************************)
EXTENDS Integers, Sequences, FiniteSets, TLC

\* ------------------------------------------------------------------------
\* Bounds of the model
\* ------------------------------------------------------------------------
NumDeals == 1

Deals == 1..NumDeals

\* ------------------------------------------------------------------------
\* JavaScript values (tagged)
\* ------------------------------------------------------------------------
JUndef == [t |-> "undefined"]
JNull == [t |-> "null"]
JStr(s) == [t |-> "string", s |-> s]
JNum(n) == [t |-> "number", n |-> n]
JBool(b) == [t |-> "boolean", b |-> b]
\* an object is the sequence of its <<key, value>> pairs, in insertion order
JObj(m) == [t |-> "object", m |-> m]

\* JavaScript truthiness (ToBoolean)
Truthy(v) ==
  CASE v.t = "undefined" -> FALSE
    [] v.t = "null" -> FALSE
    [] v.t = "string" -> v.s # <<>>
    [] v.t = "number" -> v.n # 0
    [] v.t = "boolean" -> v.b
    [] OTHER -> TRUE

\* a || b
OrElse(a, b) == IF Truthy(a) THEN a ELSE b

RECURSIVE LookupFrom(_, _, _)
LookupFrom(m, k, i) ==
  IF i = 0 THEN JUndef
  ELSE IF m[i][1] = k THEN m[i][2]
  ELSE LookupFrom(m, k, i - 1)

\* obj[k] / obj.k : undefined for a missing key and for a non-object receiver
GetProp(v, k) == IF v.t = "object" THEN LookupFrom(v.m, k, Len(v.m)) ELSE JUndef

HasKey(v, k) == v.t = "object" /\ \E i \in 1..Len(v.m) : v.m[i][1] = k

\* obj[k] = val : an existing key keeps its position, a new key is appended
SetProp(v, k, val) ==
  IF HasKey(v, k)
  THEN JObj([i \in 1..Len(v.m) |-> IF v.m[i][1] = k THEN <<k, val>> ELSE v.m[i]])
  ELSE JObj(Append(v.m, <<k, val>>))

RECURSIVE MergeFrom(_, _, _)
MergeFrom(a, b, i) ==
  IF i > Len(b.m) THEN a
  ELSE MergeFrom(SetProp(a, b.m[i][1], b.m[i][2]), b, i + 1)

\* { ...a, ...b }
Spread(a, b) == MergeFrom(a, b, 1)

\* ------------------------------------------------------------------------
\* Text: sequences of one-character strings
\* ------------------------------------------------------------------------
DQ == "\""
BS == "\\"

Digits == <<"0", "1", "2", "3", "4", "5", "6", "7", "8", "9">>

IsDigit(c) == \E d \in 1..10 : Digits[d] = c

DigitValue(c) == (CHOOSE d \in 1..10 : Digits[d] = c) - 1

\* does pat occur in str at position i
MatchAt(str, i, pat) ==
  /\ i + Len(pat) - 1 <= Len(str)
  /\ \A j \in 1..Len(pat) : str[i + j - 1] = pat[j]

\* String.prototype.includes
Includes(str, pat) == \E i \in 1..(Len(str) + 1) : MatchAt(str, i, pat)

\* the concatenation of the pieces ps[lo..hi]
RECURSIVE Flatten(_, _, _)
Flatten(ps, lo, hi) ==
  IF lo > hi THEN <<>>
  ELSE IF lo = hi THEN ps[lo]
  ELSE LET mid == (lo + hi) \div 2 IN Flatten(ps, lo, mid) \o Flatten(ps, mid + 1, hi)

\* str.replace(/pat/g, rep) for a literal pattern no two occurrences of
\* which overlap (every pattern of the code starts with its only "&"):
\* each occurrence becomes rep, every other character stays
ReplaceAll(str, pat, rep) ==
  LET piece(i) ==
        IF MatchAt(str, i, pat) THEN rep
        ELSE IF \E j \in 1..(i - 1) : MatchAt(str, j, pat) /\ i < j + Len(pat) THEN <<>>
        ELSE <<str[i]>>
  IN Flatten([i \in 1..Len(str) |-> piece(i)], 1, Len(str))

IsSpace(c) == c = " "

RECURSIVE TrimLeft(_)
TrimLeft(str) ==
  IF str # <<>> /\ IsSpace(Head(str)) THEN TrimLeft(Tail(str)) ELSE str

RECURSIVE TrimRight(_)
TrimRight(str) ==
  IF str # <<>> /\ IsSpace(str[Len(str)])
  THEN TrimRight(SubSeq(str, 1, Len(str) - 1))
  ELSE str

\* String.prototype.trim
Trim(str) == TrimRight(TrimLeft(str))

\* ------------------------------------------------------------------------
\* decodeHtmlEntities, stripHtmlTags
\* ------------------------------------------------------------------------
EntQuot == <<"&", "q", "u", "o", "t", ";">>
EntNum34 == <<"&", "#", "3", "4", ";">>
EntNum39 == <<"&", "#", "3", "9", ";">>
EntApos == <<"&", "a", "p", "o", "s", ";">>
EntAmp == <<"&", "a", "m", "p", ";">>
EntLt == <<"&", "l", "t", ";">>
EntGt == <<"&", "g", "t", ";">>

\* the seven replacements, in the order of the code
decodeHtmlEntities(str) ==
  ReplaceAll(
    ReplaceAll(
      ReplaceAll(
        ReplaceAll(
          ReplaceAll(
            ReplaceAll(
              ReplaceAll(str, EntQuot, <<DQ>>),
              EntNum34, <<DQ>>),
            EntNum39, <<"'">>),
          EntApos, <<"'">>),
        EntAmp, <<"&">>),
      EntLt, <<"<">>),
    EntGt, <<">">>)

\* the character at i belongs to a match of /<\/?[^>]+(>|$)/: some "<" at
\* j <= i is followed by a character other than ">", and no ">" lies
\* strictly between j and i. (A match runs from its "<" through the next
\* ">", or to the end of the string; a "<" inside a match opens no longer
\* one.)
InTag(str, i) ==
  \E j \in 1..i :
    /\ str[j] = "<"
    /\ j + 1 <= Len(str)
    /\ str[j + 1] # ">"
    /\ \A m \in (j + 1)..(i - 1) : str[m] # ">"

\* str.replace(/<\/?[^>]+(>|$)/g, "")
stripHtmlTags(str) ==
  Flatten([i \in 1..Len(str) |-> IF InTag(str, i) THEN <<>> ELSE <<str[i]>>],
          1, Len(str))

\* ------------------------------------------------------------------------
\* JSON.stringify
\* ------------------------------------------------------------------------
\* a string literal: the quote and the backslash are escaped
Quote(str) ==
  <<DQ>>
  \o Flatten([i \in 1..Len(str) |->
               IF str[i] = DQ \/ str[i] = BS THEN <<BS, str[i]>> ELSE <<str[i]>>],
             1, Len(str))
  \o <<DQ>>

RECURSIVE NatToText(_)
NatToText(n) ==
  IF n < 10 THEN <<Digits[n + 1]>>
  ELSE NatToText(n \div 10) \o <<Digits[(n % 10) + 1]>>

RECURSIVE Stringify(_)
RECURSIVE StringifyMembers(_, _, _)
\* the members of an object from index i on; a member whose value is
\* undefined is left out
StringifyMembers(m, i, first) ==
  IF i > Len(m) THEN <<>>
  ELSE IF m[i][2].t = "undefined" THEN StringifyMembers(m, i + 1, first)
  ELSE (IF first THEN <<>> ELSE <<",">>)
       \o Quote(m[i][1]) \o <<":">> \o Stringify(m[i][2])
       \o StringifyMembers(m, i + 1, FALSE)

Stringify(v) ==
  CASE v.t = "null" -> <<"n", "u", "l", "l">>
    [] v.t = "string" -> Quote(v.s)
    [] v.t = "number" -> NatToText(v.n)
    [] v.t = "boolean" -> IF v.b THEN <<"t", "r", "u", "e">>
                                 ELSE <<"f", "a", "l", "s", "e">>
    [] v.t = "object" -> <<"{">> \o StringifyMembers(v.m, 1, TRUE) \o <<"}">>

\* ------------------------------------------------------------------------
\* JSON.parse
\* ------------------------------------------------------------------------
ParseFail == [ok |-> FALSE, val |-> JUndef, next |-> 0]

ParseOk(v, n) == [ok |-> TRUE, val |-> v, next |-> n]

RECURSIVE SkipWs(_, _)
SkipWs(s, i) == IF i <= Len(s) /\ IsSpace(s[i]) THEN SkipWs(s, i + 1) ELSE i

\* the characters of a string literal from i on (after the opening quote)
RECURSIVE ScanString(_, _, _)
ScanString(s, i, acc) ==
  IF i > Len(s) THEN ParseFail
  ELSE IF s[i] = DQ THEN ParseOk(acc, i + 1)
  ELSE IF s[i] = BS
  THEN IF i + 1 <= Len(s) /\ s[i + 1] \in {DQ, BS, "/"}
       THEN ScanString(s, i + 2, Append(acc, s[i + 1]))
       ELSE ParseFail
  ELSE ScanString(s, i + 1, Append(acc, s[i]))

RECURSIVE ScanNumber(_, _, _)
ScanNumber(s, i, acc) ==
  IF i <= Len(s) /\ IsDigit(s[i])
  THEN ScanNumber(s, i + 1, 10 * acc + DigitValue(s[i]))
  ELSE ParseOk(JNum(acc), i)

RECURSIVE ParseValue(_, _)
RECURSIVE ParseMembers(_, _, _)
\* the members of an object from i on (after "{" or ","); a repeated key
\* takes the later value
ParseMembers(s, i, acc) ==
  LET i1 == SkipWs(s, i) IN
  IF i1 > Len(s) \/ s[i1] # DQ THEN ParseFail
  ELSE
    LET k == ScanString(s, i1 + 1, <<>>) IN
    IF ~k.ok THEN ParseFail
    ELSE
      LET i2 == SkipWs(s, k.next) IN
      IF i2 > Len(s) \/ s[i2] # ":" THEN ParseFail
      ELSE
        LET v == ParseValue(s, SkipWs(s, i2 + 1)) IN
        IF ~v.ok THEN ParseFail
        ELSE
          LET i3 == SkipWs(s, v.next)
              acc2 == SetProp(acc, k.val, v.val)
          IN
          IF i3 > Len(s) THEN ParseFail
          ELSE IF s[i3] = "}" THEN ParseOk(acc2, i3 + 1)
          ELSE IF s[i3] = "," THEN ParseMembers(s, i3 + 1, acc2)
          ELSE ParseFail

ParseValue(s, i) ==
  IF i > Len(s) THEN ParseFail
  ELSE IF s[i] = "{"
  THEN LET j == SkipWs(s, i + 1) IN
       IF j <= Len(s) /\ s[j] = "}" THEN ParseOk(JObj(<<>>), j + 1)
       ELSE ParseMembers(s, i + 1, JObj(<<>>))
  ELSE IF s[i] = DQ
  THEN LET r == ScanString(s, i + 1, <<>>) IN
       IF r.ok THEN ParseOk(JStr(r.val), r.next) ELSE ParseFail
  ELSE IF IsDigit(s[i]) THEN ScanNumber(s, i, 0)
  ELSE IF MatchAt(s, i, <<"n", "u", "l", "l">>) THEN ParseOk(JNull, i + 4)
  ELSE IF MatchAt(s, i, <<"t", "r", "u", "e">>) THEN ParseOk(JBool(TRUE), i + 4)
  ELSE IF MatchAt(s, i, <<"f", "a", "l", "s", "e">>) THEN ParseOk(JBool(FALSE), i + 5)
  ELSE ParseFail

\* JSON.parse(text): ok is FALSE where JSON.parse throws
JsonParse(s) ==
  LET r == ParseValue(s, SkipWs(s, 1)) IN
  IF r.ok /\ SkipWs(s, r.next) = Len(s) + 1 THEN r ELSE ParseFail

\* ------------------------------------------------------------------------
\* Keys of request bodies, of the state blob and of response bodies
\* ------------------------------------------------------------------------
kDealId == <<"d", "e", "a", "l", "I", "d">>

kCollateralType == <<"c", "o", "l", "l", "a", "t", "e", "r", "a", "l", "T", "y", "p", "e">>

kItemStatuses == <<"i", "t", "e", "m", "S", "t", "a", "t", "u", "s", "e", "s">>

kMarkComplete == <<"m", "a", "r", "k", "C", "o", "m", "p", "l", "e", "t", "e">>

kOverallStatus == <<"o", "v", "e", "r", "a", "l", "l", "S", "t", "a", "t", "u", "s">>

kProperties == <<"p", "r", "o", "p", "e", "r", "t", "i", "e", "s">>

kVersion == <<"v", "e", "r", "s", "i", "o", "n">>

kUpdatedAt == <<"u", "p", "d", "a", "t", "e", "d", "A", "t">>

kIsSaved == <<"i", "s", "S", "a", "v", "e", "d">>

kLastSavedAt == <<"l", "a", "s", "t", "S", "a", "v", "e", "d", "A", "t">>

kError == <<"e", "r", "r", "o", "r">>

kDetails == <<"d", "e", "t", "a", "i", "l", "s">>

kSuccess == <<"s", "u", "c", "c", "e", "s", "s">>

kStatePropertyUsed == <<"s", "t", "a", "t", "e", "P", "r", "o", "p", "e", "r", "t", "y", "U", "s", "e", "d">>

kSOFR == <<"S", "O", "F", "R">>

kPRIME == <<"P", "R", "I", "M", "E">>

kTREASURY5Y == <<"T", "R", "E", "A", "S", "U", "R", "Y", "_", "5", "Y">>

kTREASURY10Y == <<"T", "R", "E", "A", "S", "U", "R", "Y", "_", "1", "0", "Y">>

\* ------------------------------------------------------------------------
\* String literals of the code
\* ------------------------------------------------------------------------
TxtTrue == <<"t", "r", "u", "e">>

TxtFalse == <<"f", "a", "l", "s", "e">>

TxtTrueUpper == <<"T", "R", "U", "E">>

TxtTrueCapital == <<"T", "r", "u", "e">>

TxtComplete == <<"C", "o", "m", "p", "l", "e", "t", "e">>

TxtProperty == <<"p", "r", "o", "p", "e", "r", "t", "y">>

TxtMissingDealId == <<"M", "i", "s", "s", "i", "n", "g", " ", "d", "e", "a", "l", "I", "d">>

TxtMissingDealIdOrProperties == <<"M", "i", "s", "s", "i", "n", "g", " ", "d", "e", "a", "l", "I", "d", " ", "o", "r", " ", "p", "r", "o", "p", "e", "r", "t", "i", "e", "s">>

TxtServerError == <<"S", "e", "r", "v", "e", "r", " ", "e", "r", "r", "o", "r">>

TxtHubSpotUpdateFailed == <<"H", "u", "b", "S", "p", "o", "t", " ", "u", "p", "d", "a", "t", "e", " ", "f", "a", "i", "l", "e", "d">>

TxtServerNotConfigured == <<"S", "e", "r", "v", "e", "r", " ", "n", "o", "t", " ", "c", "o", "n", "f", "i", "g", "u", "r", "e", "d">>

TxtFailedToFetchRates == <<"F", "a", "i", "l", "e", "d", " ", "t", "o", " ", "f", "e", "t", "c", "h", " ", "r", "a", "t", "e", "s">>

\* ------------------------------------------------------------------------
\* Configurable property names. The deployment modelled sets the names
\* through the environment overrides to two-character names; the
\* in-memory revision's hard-coded deal_collateral_dropdown and
\* collateral_checklist_complete are abbreviated to the same names.
\* ------------------------------------------------------------------------
COLLATERAL_TYPE_PROPERTY == <<"c", "t">>

CHECKLIST_COMPLETE_PROPERTY == <<"c", "c">>

DEAL_OVERALL_STATUS_PROPERTY == <<"o", "s">>

CHECKLIST_STATE_PROPERTY == <<"s", "1">>

ALT_CHECKLIST_STATE_PROPERTY == <<"s", "2">>

\* ------------------------------------------------------------------------
\* State
\* ------------------------------------------------------------------------
VARIABLES
  revision,        \* "persistent" (src/server.js) or "memory" (src/unnamed/part_000)
  tokenSet,        \* process.env.HUBSPOT_ACCESS_TOKEN is set
  fredKeySet,      \* process.env.FRED_API_KEY is set
  schema,          \* the state properties that exist in the CRM portal
  crm,             \* the CRM: the properties of each deal
  checklistStore,  \* the in-memory revision's store
  req,             \* the CRM-facing request being served, or the last one served
  lastSave,        \* per deal: the last successful save, with no write since
  fred,            \* the four upstream series calls of the rates request
  rates            \* the rates request being served, or the last one served

vars ==
  <<revision, tokenSet, fredKeySet, schema, crm, checklistStore, req,
    lastSave, fred, rates>>

crmVars == <<revision, tokenSet, schema, crm, checklistStore, req, lastSave>>

ratesVars == <<fredKeySet, fred, rates>>

\* ------------------------------------------------------------------------
\* The upstream CRM
\* ------------------------------------------------------------------------
\* the properties of the portal: the state properties of schema and the rest
PortalProperties ==
  schema \cup {COLLATERAL_TYPE_PROPERTY, CHECKLIST_COMPLETE_PROPERTY,
               DEAL_OVERALL_STATUS_PROPERTY}

\* the CRM returns every property value as text
CrmText(v) ==
  CASE v.t = "string" -> v
    [] v.t = "boolean" -> JStr(IF v.b THEN TxtTrue ELSE TxtFalse)
    [] v.t = "number" -> JStr(NatToText(v.n))
    [] OTHER -> JStr(<<>>)

RECURSIVE CrmApplyFrom(_, _, _)
CrmApplyFrom(rec, props, i) ==
  IF i > Len(props.m) THEN rec
  ELSE CrmApplyFrom(SetProp(rec, props.m[i][1], CrmText(props.m[i][2])), props, i + 1)

\* the deal record after a PATCH of props is accepted
CrmApply(rec, props) == CrmApplyFrom(rec, props, 1)

ErrPropertyMissing(p) == <<"P", "r", "o", "p", "e", "r", "t", "y", " ">> \o p \o <<" ", "d", "o", "e", "s", " ", "n", "o", "t", " ", "e", "x", "i", "s", "t">>

ErrInvalidValue == <<"P", "r", "o", "p", "e", "r", "t", "y", " ", "v", "a", "l", "u", "e", "s", " ", "w", "e", "r", "e", " ", "n", "o", "t", " ", "v", "a", "l", "i", "d">>

ErrRateLimit == <<"r", "a", "t", "e", " ", "l", "i", "m", "i", "t">>

\* what the CRM may answer to a PATCH of props: status -1 stands for a fetch
\* that rejects (no HTTP response). A property the portal does not have is
\* always refused; any write may be refused for a value or be rate limited.
PatchResults(props) ==
  LET missing == {i \in 1..Len(props.m) : props.m[i][1] \notin PortalProperties} IN
  (IF missing # {}
   THEN {[status |-> 400,
          text |-> ErrPropertyMissing(props.m[CHOOSE i \in missing : \A j \in missing : i <= j][1])]}
   ELSE {[status |-> 200, text |-> <<"{", "}">>],
         [status |-> 400, text |-> ErrInvalidValue]})
  \cup {[status |-> 429, text |-> ErrRateLimit], [status |-> -1, text |-> <<>>]}

\* Response.ok
Ok(status) == status >= 200 /\ status <= 299

RECURSIVE PickFrom(_, _, _)
PickFrom(rec, names, i) ==
  IF i > Len(names) THEN JObj(<<>>)
  ELSE LET rest == PickFrom(rec, names, i + 1) IN
       IF HasKey(rec, names[i])
       THEN JObj(<<<<names[i], GetProp(rec, names[i])>>>> \o rest.m)
       ELSE rest

\* ------------------------------------------------------------------------
\* Helpers of src/server.js
\* ------------------------------------------------------------------------
Uppers == <<"A", "B", "C", "D", "E", "F", "G", "H", "I", "J", "K", "L", "M", "N", "O", "P", "Q", "R", "S", "T", "U", "V", "W", "X", "Y", "Z">>

Lowers == <<"a", "b", "c", "d", "e", "f", "g", "h", "i", "j", "k", "l", "m", "n", "o", "p", "q", "r", "s", "t", "u", "v", "w", "x", "y", "z">>

\* String.prototype.toLowerCase
ToLowerCase(str) ==
  [i \in 1..Len(str) |->
    IF \E u \in 1..26 : Uppers[u] = str[i]
    THEN Lowers[CHOOSE u \in 1..26 : Uppers[u] = str[i]]
    ELSE str[i]]

\* requireHubSpotToken returns (TRUE) or throws (FALSE)
requireHubSpotToken == tokenSet

safeParseStateJson(raw) ==
  IF ~Truthy(raw) \/ raw.t # "string" THEN JNull
  ELSE
    LET trimmed == Trim(raw.s) IN
    IF trimmed = <<>> THEN JNull
    ELSE
      LET first == JsonParse(trimmed) IN
      IF first.ok THEN first.val
      ELSE
        LET noTags == Trim(stripHtmlTags(trimmed))
            decoded == Trim(decodeHtmlEntities(noTags))
            second == JsonParse(decoded)
        IN IF second.ok THEN second.val ELSE JNull

\* fetchDealProperties, given that the token is set and the CRM answers 2xx
\* with JSON: the requested properties that hold a value
fetchDealProperties(d, propertyNames) == PickFrom(crm[d], propertyNames, 1)

\* ------------------------------------------------------------------------
\* Requests and responses of the CRM-facing endpoints
\* ------------------------------------------------------------------------
\* pc: "idle" (nothing received yet), "primary" / "fallback" / "patch" (the
\* handler awaits that upstream PATCH), "done" (the response is sent).
\* patches: the upstream PATCH calls the request has issued, in order; a
\* status of 0 is a call in flight, -1 a fetch that rejected.
Idle ==
  [pc |-> "idle", ep |-> "none", body |-> JUndef, stateJson |-> <<>>,
   patches |-> <<>>, status |-> 0, out |-> JUndef]

NewReq(ep, body) == [Idle EXCEPT !.ep = ep, !.body = body]

\* res.status(status).json(out)
Respond(r, status, out) == [r EXCEPT !.pc = "done", !.status = status, !.out = out]

Issue(r, pc, props) ==
  [r EXCEPT !.pc = pc,
            !.patches = Append(@, [props |-> props, status |-> 0, text |-> <<>>])]

\* the last PATCH of r has returned res
Returned(r, res) ==
  [r EXCEPT !.patches[Len(r.patches)].status = res.status,
            !.patches[Len(r.patches)].text = res.text]

Accepting == req.pc \in {"idle", "done"}

ErrorBody(msg) == JObj(<<<<kError, JStr(msg)>>>>)

FailureBody(text) ==
  JObj(<<<<kError, JStr(TxtHubSpotUpdateFailed)>>, <<kDetails, JStr(text)>>>>)

\* deal identifiers are opaque strings; the CRM knows the deals of Deals
DealOf(dealId) == CHOOSE d \in Deals : NatToText(d) = dealId.s

NoSave == [saved |-> FALSE, itemStatuses |-> JUndef, markComplete |-> FALSE]

\* new Date().toISOString(): the model holds the clock at one instant
toISOString == <<"T", "0">>

\* ------------------------------------------------------------------------
\* Inputs
\* ------------------------------------------------------------------------
DealIdInputs == {JUndef} \cup {JStr(NatToText(d)) : d \in Deals}

ItemsA == JObj(<<<<<<"a">>, JStr(<<"o", "k">>)>>>>)

ItemsB == JObj(<<<<<<"a">>, JStr(<<"n", "o">>)>>, <<<<"b">>, JStr(<<DQ, "<", "&", BS>>)>>>>)

SaveBody(id, ct, is, mc) ==
  JObj(<<<<kDealId, id>>, <<kCollateralType, ct>>, <<kItemStatuses, is>>,
         <<kMarkComplete, mc>>>>)

\* the request bodies of a checklist save (property-backed revision)
SaveBodies ==
  {SaveBody(JUndef, JUndef, ItemsA, JBool(TRUE))}
  \cup {SaveBody(JStr(NatToText(d)), JStr(<<"b">>), ItemsA, JBool(TRUE)) : d \in Deals}
  \cup {SaveBody(JStr(NatToText(d)), JUndef, ItemsB, JBool(FALSE)) : d \in Deals}
  \cup {SaveBody(JStr(NatToText(d)), JUndef, JUndef, JUndef) : d \in Deals}

MemSaveBody(id, is, mc, os) ==
  JObj(<<<<kDealId, id>>, <<kCollateralType, JUndef>>, <<kItemStatuses, is>>,
         <<kMarkComplete, mc>>, <<kOverallStatus, os>>>>)

\* the request bodies of a checklist save (in-memory revision)
MemSaveBodies ==
  {MemSaveBody(JUndef, ItemsA, JUndef, JUndef)}
  \cup {MemSaveBody(JStr(NatToText(d)), ItemsA, JUndef, JUndef) : d \in Deals}
  \cup {MemSaveBody(JStr(NatToText(d)), ItemsB, JBool(FALSE), JStr(<<"W", "a", "i", "t">>)) : d \in Deals}
  \cup {MemSaveBody(JStr(NatToText(d)), JUndef, JBool(TRUE), JUndef) : d \in Deals}

\* a state blob as a rich-text field would hold it: quotes as entities,
\* wrapped in a paragraph tag
RichText(text) ==
  <<"<", "p", ">">> \o ReplaceAll(text, <<DQ>>, EntQuot) \o <<"<", "/", "p", ">">>

\* the properties a relay caller sends: the complete flag and a state blob
\* in rich-text form
RelayProperties ==
  JObj(<<<<CHECKLIST_COMPLETE_PROPERTY, JStr(TxtTrueCapital)>>,
         <<CHECKLIST_STATE_PROPERTY,
           JStr(RichText(Stringify(JObj(<<<<kItemStatuses, ItemsA>>>>))))>>>>)

RelayBodies ==
  {JObj(<<<<kDealId, id>>, <<kProperties, ps>>>>) :
     id \in DealIdInputs, ps \in {JUndef, RelayProperties}}

\* ------------------------------------------------------------------------
\* GET /hubspot/collateral-checklist (src/server.js)
\* ------------------------------------------------------------------------
\* reads: how many upstream reads succeed before one fails (2: none fails);
\* fetchDealProperties throws on a non-2xx answer and on a non-JSON body
GetChecklistResult(dealId, reads) ==
  IF ~Truthy(dealId) THEN [status |-> 400, out |-> ErrorBody(TxtMissingDealId)]
  ELSE IF ~requireHubSpotToken \/ reads < 1
  THEN [status |-> 500, out |-> ErrorBody(TxtServerError)]
  ELSE
    LET d == DealOf(dealId)
        props1 == fetchDealProperties(d,
                    <<COLLATERAL_TYPE_PROPERTY, CHECKLIST_COMPLETE_PROPERTY,
                      CHECKLIST_STATE_PROPERTY>>)
        raw1 == GetProp(props1, CHECKLIST_STATE_PROPERTY)
        useAlt == /\ (~Truthy(raw1) \/ Trim(raw1.s) = <<>>)
                  /\ ALT_CHECKLIST_STATE_PROPERTY # <<>>
                  /\ ALT_CHECKLIST_STATE_PROPERTY # CHECKLIST_STATE_PROPERTY
    IN
    IF useAlt /\ reads < 2 THEN [status |-> 500, out |-> ErrorBody(TxtServerError)]
    ELSE
      LET props2 == fetchDealProperties(d,
                      <<COLLATERAL_TYPE_PROPERTY, CHECKLIST_COMPLETE_PROPERTY,
                        ALT_CHECKLIST_STATE_PROPERTY>>)
          props == IF useAlt THEN Spread(props1, props2) ELSE props1
          rawState == IF useAlt THEN GetProp(props2, ALT_CHECKLIST_STATE_PROPERTY)
                      ELSE raw1
          parsed == OrElse(safeParseStateJson(rawState), JObj(<<>>))
          collateralType ==
            OrElse(OrElse(GetProp(parsed, kCollateralType),
                          GetProp(props, COLLATERAL_TYPE_PROPERTY)), JNull)
          itemStatuses == OrElse(GetProp(parsed, kItemStatuses), JObj(<<>>))
          completeRaw == GetProp(props, CHECKLIST_COMPLETE_PROPERTY)
          isSaved == \/ completeRaw = JBool(TRUE)
                     \/ completeRaw = JStr(TxtTrue)
                     \/ completeRaw = JStr(TxtTrueUpper)
                     \/ completeRaw = JStr(TxtTrueCapital)
          lastSavedAt == OrElse(GetProp(parsed, kUpdatedAt), JNull)
      IN [status |-> 200,
          out |-> JObj(<<<<kCollateralType, collateralType>>,
                         <<kItemStatuses, itemStatuses>>,
                         <<kIsSaved, JBool(isSaved)>>,
                         <<kLastSavedAt, lastSavedAt>>>>)]

GetChecklist ==
  /\ revision = "persistent"
  /\ Accepting
  /\ \E dealId \in DealIdInputs, reads \in 0..2 :
       LET res == GetChecklistResult(dealId, reads) IN
       req' = Respond(NewReq("getChecklist", JObj(<<<<kDealId, dealId>>>>)),
                      res.status, res.out)
  /\ UNCHANGED <<revision, tokenSet, schema, crm, checklistStore, lastSave, ratesVars>>

\* ------------------------------------------------------------------------
\* POST /hubspot/collateral-checklist (src/server.js)
\* ------------------------------------------------------------------------
\* the buildPropertiesFn the handler passes to patchWithStatePropertyFallback
buildProperties(stateProp, stateJson, collateralType, markComplete) ==
  LET p0 == JObj(<<<<stateProp, JStr(stateJson)>>>>)
      p1 == IF Truthy(collateralType)
            THEN SetProp(p0, COLLATERAL_TYPE_PROPERTY, collateralType)
            ELSE p0
  IN IF Truthy(markComplete)
     THEN SetProp(SetProp(p1, CHECKLIST_COMPLETE_PROPERTY, JStr(TxtTrue)),
                  DEAL_OVERALL_STATUS_PROPERTY, JStr(TxtComplete))
     ELSE SetProp(p1, CHECKLIST_COMPLETE_PROPERTY, JStr(TxtFalse))

BuildFor(r, stateProp) ==
  buildProperties(stateProp, r.stateJson, GetProp(r.body, kCollateralType),
                  GetProp(r.body, kMarkComplete))

\* the state blob the handler serialises
StateOf(body) ==
  JObj(<<<<kVersion, JNum(1)>>,
         <<kUpdatedAt, JStr(toISOString)>>,
         <<kCollateralType, OrElse(GetProp(body, kCollateralType), JNull)>>,
         <<kItemStatuses, OrElse(GetProp(body, kItemStatuses), JObj(<<>>))>>>>)

\* the answer when every result is labelled with the primary property
SaveResponseNamesPrimary(r, status, text, statePropertyUsed) ==
  IF ~Ok(status)
  THEN Respond(r, status,
         JObj(<<<<kError, JStr(TxtHubSpotUpdateFailed)>>, <<kDetails, JStr(text)>>,
                <<kStatePropertyUsed, JStr(CHECKLIST_STATE_PROPERTY)>>>>))
  ELSE Respond(r, 200,
         JObj(<<<<kSuccess, JBool(TRUE)>>,
                <<kMarkComplete, JBool(Truthy(GetProp(r.body, kMarkComplete)))>>,
                <<kStatePropertyUsed, JStr(CHECKLIST_STATE_PROPERTY)>>>>))

\* the handler's answer to the result of patchWithStatePropertyFallback
SaveResponse(r, status, text, statePropertyUsed) ==
  IF ~Ok(status)
  THEN Respond(r, status,
         JObj(<<<<kError, JStr(TxtHubSpotUpdateFailed)>>, <<kDetails, JStr(text)>>,
                <<kStatePropertyUsed, JStr(statePropertyUsed)>>>>))
  ELSE Respond(r, 200,
         JObj(<<<<kSuccess, JBool(TRUE)>>,
                <<kMarkComplete, JBool(Truthy(GetProp(r.body, kMarkComplete)))>>,
                <<kStatePropertyUsed, JStr(statePropertyUsed)>>>>))

SavedBy(body) ==
  [saved |-> TRUE,
   itemStatuses |-> OrElse(GetProp(body, kItemStatuses), JObj(<<>>)),
   markComplete |-> Truthy(GetProp(body, kMarkComplete))]

\* the request arrives: validation, the state blob, the primary PATCH is issued
PostChecklist ==
  /\ revision = "persistent"
  /\ Accepting
  /\ \E body \in SaveBodies :
       LET dealId == GetProp(body, kDealId)
           r == [NewReq("postChecklist", body) EXCEPT
                   !.stateJson = Stringify(StateOf(body))]
       IN
       IF ~Truthy(dealId)
       THEN req' = Respond(NewReq("postChecklist", body), 400,
                           ErrorBody(TxtMissingDealId))
       ELSE IF ~requireHubSpotToken
       THEN req' = Respond(r, 500, ErrorBody(TxtServerError))
       ELSE req' = Issue(r, "primary", BuildFor(r, CHECKLIST_STATE_PROPERTY))
  /\ UNCHANGED <<revision, tokenSet, schema, crm, checklistStore, lastSave,
                 ratesVars>>

\* the heuristic of patchWithStatePropertyFallback on the primary error text
maybeInvalidProp(text) ==
  \/ Includes(text, CHECKLIST_STATE_PROPERTY)
  \/ Includes(ToLowerCase(text), TxtProperty)

\* patchWithStatePropertyFallback decides to try the fallback property
TriesFallback(text) ==
  /\ ALT_CHECKLIST_STATE_PROPERTY # <<>>
  /\ ALT_CHECKLIST_STATE_PROPERTY # CHECKLIST_STATE_PROPERTY
  /\ maybeInvalidProp(text)

\* the primary PATCH returns: success, fallback, or the primary failure
PrimaryReturns ==
  /\ req.pc = "primary"
  /\ \E res \in PatchResults(req.patches[1].props) :
       LET d == DealOf(GetProp(req.body, kDealId))
           r == Returned(req, res)
       IN
       IF res.status = -1
       THEN /\ req' = Respond(r, 500, ErrorBody(TxtServerError))
            /\ UNCHANGED <<crm, lastSave>>
       ELSE IF Ok(res.status)
       THEN /\ crm' = [crm EXCEPT ![d] = CrmApply(@, req.patches[1].props)]
            /\ req' = SaveResponse(r, res.status, res.text, CHECKLIST_STATE_PROPERTY)
            /\ lastSave' = [lastSave EXCEPT ![d] = SavedBy(req.body)]
       ELSE IF TriesFallback(res.text)
       THEN /\ req' = Issue(r, "fallback", BuildFor(r, ALT_CHECKLIST_STATE_PROPERTY))
            /\ UNCHANGED <<crm, lastSave>>
       ELSE /\ req' = SaveResponse(r, res.status, res.text, CHECKLIST_STATE_PROPERTY)
            /\ UNCHANGED <<crm, lastSave>>
  /\ UNCHANGED <<revision, tokenSet, schema, checklistStore, ratesVars>>

\* the fallback PATCH returns, and a failure is answered with the status of
\* the primary attempt
FallbackReturnsPrimaryStatus ==
  /\ req.pc = "fallback"
  /\ \E res \in PatchResults(req.patches[2].props) :
       LET d == DealOf(GetProp(req.body, kDealId))
           r == Returned(req, res)
       IN
       IF res.status = -1
       THEN /\ req' = Respond(r, 500, ErrorBody(TxtServerError))
            /\ UNCHANGED <<crm, lastSave>>
       ELSE IF Ok(res.status)
       THEN /\ crm' = [crm EXCEPT ![d] = CrmApply(@, req.patches[2].props)]
            /\ req' = SaveResponse(r, res.status, res.text, ALT_CHECKLIST_STATE_PROPERTY)
            /\ lastSave' = [lastSave EXCEPT ![d] = SavedBy(req.body)]
       ELSE /\ req' = SaveResponse(r, req.patches[1].status, req.patches[1].text,
                                   CHECKLIST_STATE_PROPERTY)
            /\ UNCHANGED <<crm, lastSave>>
  /\ UNCHANGED <<revision, tokenSet, schema, checklistStore, ratesVars>>

\* the fallback PATCH returns: its result is the result of the save
FallbackReturns ==
  /\ req.pc = "fallback"
  /\ \E res \in PatchResults(req.patches[2].props) :
       LET d == DealOf(GetProp(req.body, kDealId))
           r == Returned(req, res)
       IN
       IF res.status = -1
       THEN /\ req' = Respond(r, 500, ErrorBody(TxtServerError))
            /\ UNCHANGED <<crm, lastSave>>
       ELSE IF Ok(res.status)
       THEN /\ crm' = [crm EXCEPT ![d] = CrmApply(@, req.patches[2].props)]
            /\ req' = SaveResponse(r, res.status, res.text, ALT_CHECKLIST_STATE_PROPERTY)
            /\ lastSave' = [lastSave EXCEPT ![d] = SavedBy(req.body)]
       ELSE /\ req' = SaveResponse(r, res.status, res.text, ALT_CHECKLIST_STATE_PROPERTY)
            /\ UNCHANGED <<crm, lastSave>>
  /\ UNCHANGED <<revision, tokenSet, schema, checklistStore, ratesVars>>

\* ------------------------------------------------------------------------
\* POST /hubspot/update-deal-rates (src/server.js)
\* ------------------------------------------------------------------------
\* the handler without the check of properties
UpdateDealRatesNoPropertiesCheck ==
  /\ revision = "persistent"
  /\ Accepting
  /\ \E body \in RelayBodies :
       LET dealId == GetProp(body, kDealId)
           properties == GetProp(body, kProperties)
           r == NewReq("updateDealRates", body)
       IN
       IF ~Truthy(dealId)
       THEN req' = Respond(r, 400, ErrorBody(TxtMissingDealIdOrProperties))
       ELSE IF ~requireHubSpotToken
       THEN req' = Respond(r, 500, ErrorBody(TxtServerError))
       ELSE req' = Issue(r, "patch", properties)
  /\ UNCHANGED <<revision, tokenSet, schema, crm, checklistStore, lastSave,
                 ratesVars>>

UpdateDealRates ==
  /\ revision = "persistent"
  /\ Accepting
  /\ \E body \in RelayBodies :
       LET dealId == GetProp(body, kDealId)
           properties == GetProp(body, kProperties)
           r == NewReq("updateDealRates", body)
       IN
       IF ~Truthy(dealId) \/ ~Truthy(properties)
       THEN req' = Respond(r, 400, ErrorBody(TxtMissingDealIdOrProperties))
       ELSE IF ~requireHubSpotToken
       THEN req' = Respond(r, 500, ErrorBody(TxtServerError))
       ELSE req' = Issue(r, "patch", properties)
  /\ UNCHANGED <<revision, tokenSet, schema, crm, checklistStore, lastSave, ratesVars>>

\* the relay's PATCH returns
RelayReturns ==
  /\ revision = "persistent"
  /\ req.pc = "patch"
  /\ req.ep = "updateDealRates"
  /\ \E res \in PatchResults(req.patches[1].props) :
       LET d == DealOf(GetProp(req.body, kDealId))
           r == Returned(req, res)
       IN
       IF res.status = -1
       THEN /\ req' = Respond(r, 500, ErrorBody(TxtServerError))
            /\ UNCHANGED <<crm, lastSave>>
       ELSE IF ~Ok(res.status)
       THEN /\ req' = Respond(r, res.status, FailureBody(res.text))
            /\ UNCHANGED <<crm, lastSave>>
       ELSE /\ crm' = [crm EXCEPT ![d] = CrmApply(@, req.patches[1].props)]
            /\ req' = Respond(r, 200, JObj(<<<<kSuccess, JBool(TRUE)>>>>))
            /\ lastSave' = [lastSave EXCEPT ![d] = NoSave]
  /\ UNCHANGED <<revision, tokenSet, schema, checklistStore, ratesVars>>

\* ------------------------------------------------------------------------
\* The in-memory revision (src/unnamed/part_000)
\* ------------------------------------------------------------------------
MemGetChecklistResult(dealId) ==
  IF ~Truthy(dealId) THEN [status |-> 400, out |-> ErrorBody(TxtMissingDealId)]
  ELSE
    LET entry == GetProp(checklistStore, dealId.s) IN
    IF ~Truthy(entry) THEN [status |-> 200, out |-> JObj(<<>>)]
    ELSE [status |-> 200, out |-> entry]

MemGetChecklist ==
  /\ revision = "memory"
  /\ Accepting
  /\ \E dealId \in DealIdInputs :
       LET res == MemGetChecklistResult(dealId) IN
       req' = Respond(NewReq("getChecklist", JObj(<<<<kDealId, dealId>>>>)),
                      res.status, res.out)
  /\ UNCHANGED <<revision, tokenSet, schema, crm, checklistStore, lastSave, ratesVars>>

\* the entry the handler stores for a body
MemEntry(body) ==
  JObj(<<<<kCollateralType, OrElse(GetProp(body, kCollateralType), JNull)>>,
         <<kItemStatuses, OrElse(GetProp(body, kItemStatuses), JObj(<<>>))>>,
         <<kOverallStatus, OrElse(GetProp(body, kOverallStatus), JStr(TxtComplete))>>,
         <<kIsSaved, JBool(TRUE)>>>>)

\* the deal properties the handler writes for a body
MemProperties(body) ==
  JObj(<<<<DEAL_OVERALL_STATUS_PROPERTY,
           OrElse(GetProp(body, kOverallStatus), JStr(TxtComplete))>>,
         <<CHECKLIST_COMPLETE_PROPERTY, JBool(TRUE)>>>>)

\* the request arrives: validation, the store is written, the PATCH is issued
MemPostChecklist ==
  /\ revision = "memory"
  /\ Accepting
  /\ \E body \in MemSaveBodies :
       LET dealId == GetProp(body, kDealId)
           r == NewReq("postChecklist", body)
       IN
       IF ~Truthy(dealId)
       THEN /\ req' = Respond(r, 400, ErrorBody(TxtMissingDealId))
            /\ UNCHANGED <<checklistStore, lastSave>>
       ELSE /\ checklistStore' = SetProp(checklistStore, dealId.s, MemEntry(body))
            /\ lastSave' = [lastSave EXCEPT ![DealOf(dealId)] = NoSave]
            /\ IF ~tokenSet
               THEN req' = Respond(r, 500, ErrorBody(TxtServerNotConfigured))
               ELSE req' = Issue(r, "patch", MemProperties(body))
  /\ UNCHANGED <<revision, tokenSet, schema, crm, ratesVars>>

\* the PATCH of a checklist save returns
MemPatchReturns ==
  /\ revision = "memory"
  /\ req.pc = "patch"
  /\ req.ep = "postChecklist"
  /\ \E res \in PatchResults(req.patches[1].props) :
       LET d == DealOf(GetProp(req.body, kDealId))
           r == Returned(req, res)
       IN
       IF res.status = -1
       THEN /\ req' = Respond(r, 500, ErrorBody(TxtServerError))
            /\ UNCHANGED <<crm, lastSave>>
       ELSE IF ~Ok(res.status)
       THEN /\ req' = Respond(r, res.status, FailureBody(res.text))
            /\ UNCHANGED <<crm, lastSave>>
       ELSE /\ crm' = [crm EXCEPT ![d] = CrmApply(@, req.patches[1].props)]
            /\ req' = Respond(r, 200, JObj(<<<<kSuccess, JBool(TRUE)>>>>))
            /\ lastSave' = [lastSave EXCEPT ![d] = SavedBy(req.body)]
  /\ UNCHANGED <<revision, tokenSet, schema, checklistStore, ratesVars>>

MemUpdateDealRates ==
  /\ revision = "memory"
  /\ Accepting
  /\ \E body \in RelayBodies :
       LET dealId == GetProp(body, kDealId)
           properties == GetProp(body, kProperties)
           r == NewReq("updateDealRates", body)
       IN
       IF ~Truthy(dealId) \/ ~Truthy(properties)
       THEN req' = Respond(r, 400, ErrorBody(TxtMissingDealIdOrProperties))
       ELSE IF ~tokenSet
       THEN req' = Respond(r, 500, ErrorBody(TxtServerNotConfigured))
       ELSE req' = Issue(r, "patch", properties)
  /\ UNCHANGED <<revision, tokenSet, schema, crm, checklistStore, lastSave, ratesVars>>

MemRelayReturns ==
  /\ revision = "memory"
  /\ req.pc = "patch"
  /\ req.ep = "updateDealRates"
  /\ \E res \in PatchResults(req.patches[1].props) :
       LET d == DealOf(GetProp(req.body, kDealId))
           r == Returned(req, res)
       IN
       IF res.status = -1
       THEN /\ req' = Respond(r, 500, ErrorBody(TxtServerError))
            /\ crm' = crm
       ELSE IF ~Ok(res.status)
       THEN /\ req' = Respond(r, res.status, FailureBody(res.text))
            /\ crm' = crm
       ELSE /\ crm' = [crm EXCEPT ![d] = CrmApply(@, req.patches[1].props)]
            /\ req' = Respond(r, 200, JObj(<<<<kSuccess, JBool(TRUE)>>>>))
  /\ UNCHANGED <<revision, tokenSet, schema, checklistStore, lastSave,
                 ratesVars>>

\* ------------------------------------------------------------------------
\* GET /hubspot/rates (the same code in both revisions)
\* ------------------------------------------------------------------------
SeriesIds == <<"SOFR", "DPRIME", "DGS5", "DGS10">>

Calls == 1..4

\* Number.parseFloat on the observation texts of the model: an unsigned
\* decimal prefix, NaN when the text does not start with one. A number is
\* held in hundredths.
RECURSIVE DigitsEnd(_, _)
DigitsEnd(s, i) == IF i <= Len(s) /\ IsDigit(s[i]) THEN DigitsEnd(s, i + 1) ELSE i

RECURSIVE DigitsValue(_, _, _)
DigitsValue(s, i, j) ==
  IF j < i THEN 0 ELSE 10 * DigitsValue(s, i, j - 1) + DigitValue(s[j])

parseFloat(s0) ==
  LET s == TrimLeft(s0)
      e1 == DigitsEnd(s, 1)
      hasDot == e1 <= Len(s) /\ s[e1] = "."
      e2 == IF hasDot THEN DigitsEnd(s, e1 + 1) ELSE e1
      intDigits == e1 - 1
      fracDigits == IF hasDot THEN e2 - e1 - 1 ELSE 0
      tenths == IF fracDigits >= 1 THEN DigitValue(s[e1 + 1]) ELSE 0
      hundredths == IF fracDigits >= 2 THEN DigitValue(s[e1 + 2]) ELSE 0
  IN IF intDigits = 0 /\ fracDigits = 0 THEN [nan |-> TRUE, h |-> 0]
     ELSE [nan |-> FALSE,
           h |-> 100 * DigitsValue(s, 1, e1 - 1) + 10 * tenths + hundredths]

\* what the statistics API may answer to one series call: a fetch that
\* rejects (status -1), a non-2xx status, or 2xx with the JSON body; obs is
\* the value of the first observation, JUndef when there is no observation
FredAnswers ==
  {[status |-> -1, obs |-> JUndef], [status |-> 500, obs |-> JUndef]}
  \cup {[status |-> 200, obs |-> o] :
          o \in {JUndef, JStr(<<".">>), JStr(<<"5", ".", "3", "3">>),
                 JStr(<<"4">>), JStr(<<"n", "a">>)}}

\* fetchLatestFredValue without the check of res.ok: a non-2xx answer
\* gives null instead of a rejection
fetchLatestFredValueNoThrow(ans) ==
  IF ans.status = -1
  THEN [state |-> "rejected", value |-> JUndef, answer |-> ans]
  ELSE [state |-> "fulfilled", value |-> JNull, answer |-> ans]

\* fetchLatestFredValue after the answer ans: rejected, or fulfilled with
\* null or a number
fetchLatestFredValue(ans) ==
  IF ans.status = -1 \/ ~Ok(ans.status)
  THEN [state |-> "rejected", value |-> JUndef, answer |-> ans]
  ELSE IF ~Truthy(ans.obs) \/ ans.obs = JStr(<<".">>) \/ ans.obs = JNull
  THEN [state |-> "fulfilled", value |-> JNull, answer |-> ans]
  ELSE LET num == parseFloat(ans.obs.s) IN
       [state |-> "fulfilled",
        value |-> IF num.nan THEN JNull ELSE JNum(num.h),
        answer |-> ans]

NoCall == [state |-> "idle", value |-> JUndef, answer |-> [status |-> 0, obs |-> JUndef]]

Pending == [NoCall EXCEPT !.state = "pending"]

\* a call rejected without a request: FRED_API_KEY is not set
Unconfigured == [NoCall EXCEPT !.state = "rejected"]

RatesIdle == [pc |-> "idle", status |-> 0, out |-> JUndef]

\* the response body with the two treasury fields taken from each other's
\* series
RatesBodySwapped(f) ==
  JObj(<<<<kSOFR, f[1].value>>, <<kPRIME, f[2].value>>,
         <<kTREASURY5Y, f[4].value>>, <<kTREASURY10Y, f[3].value>>>>)

RatesBody(f) ==
  JObj(<<<<kSOFR, f[1].value>>, <<kPRIME, f[2].value>>,
         <<kTREASURY5Y, f[3].value>>, <<kTREASURY10Y, f[4].value>>>>)

\* the request arrives: the four calls are started together
GetRates ==
  /\ rates.pc \in {"idle", "done"}
  /\ \A i \in Calls : fred[i].state # "pending"
  /\ IF ~fredKeySet
     THEN /\ fred' = [i \in Calls |-> Unconfigured]
          /\ rates' = [pc |-> "done", status |-> 500,
                       out |-> ErrorBody(TxtFailedToFetchRates)]
     ELSE /\ fred' = [i \in Calls |-> Pending]
          /\ rates' = [pc |-> "waiting", status |-> 0, out |-> JUndef]
  /\ UNCHANGED <<fredKeySet, crmVars>>

\* the join as Promise.allSettled would make it: the handler responds only
\* when the four calls have settled
FredSettlesAllSettled ==
  /\ \E i \in Calls, ans \in FredAnswers :
       /\ fred[i].state = "pending"
       /\ LET f == [fred EXCEPT ![i] = fetchLatestFredValue(ans)] IN
          /\ fred' = f
          /\ rates' =
               IF rates.pc # "waiting" THEN rates
               ELSE IF \E j \in Calls : f[j].state = "pending" THEN rates
               ELSE IF \E j \in Calls : f[j].state = "rejected"
               THEN [pc |-> "done", status |-> 500,
                     out |-> ErrorBody(TxtFailedToFetchRates)]
               ELSE [pc |-> "done", status |-> 200, out |-> RatesBody(f)]
  /\ UNCHANGED <<fredKeySet, crmVars>>

\* one series call settles; Promise.all rejects on the first rejection and
\* fulfils when the four calls have fulfilled, and the handler responds
FredSettles ==
  /\ \E i \in Calls, ans \in FredAnswers :
       /\ fred[i].state = "pending"
       /\ LET f == [fred EXCEPT ![i] = fetchLatestFredValue(ans)] IN
          /\ fred' = f
          /\ rates' =
               IF rates.pc # "waiting" THEN rates
               ELSE IF f[i].state = "rejected"
               THEN [pc |-> "done", status |-> 500,
                     out |-> ErrorBody(TxtFailedToFetchRates)]
               ELSE IF \A j \in Calls : f[j].state = "fulfilled"
               THEN [pc |-> "done", status |-> 200, out |-> RatesBody(f)]
               ELSE rates
  /\ UNCHANGED <<fredKeySet, crmVars>>

\* ------------------------------------------------------------------------
\* Specifications
\* ------------------------------------------------------------------------
\* The rates endpoint shares no state with the CRM-facing endpoints, so the
\* two are explored apart: Spec is the CRM-facing endpoints of either
\* revision, SpecRates the rates endpoint.
Init ==
  /\ revision \in {"persistent", "memory"}
  /\ tokenSet \in BOOLEAN
  /\ fredKeySet = TRUE
  /\ schema \in SUBSET {CHECKLIST_STATE_PROPERTY, ALT_CHECKLIST_STATE_PROPERTY}
  /\ crm = [d \in Deals |-> JObj(<<>>)]
  /\ checklistStore = JObj(<<>>)
  /\ req = Idle
  /\ lastSave = [d \in Deals |-> NoSave]
  /\ fred = [i \in Calls |-> NoCall]
  /\ rates = RatesIdle

Next ==
  \/ GetChecklist
  \/ PostChecklist
  \/ PrimaryReturns
  \/ FallbackReturns
  \/ UpdateDealRates
  \/ RelayReturns
  \/ MemGetChecklist
  \/ MemPostChecklist
  \/ MemPatchReturns
  \/ MemUpdateDealRates
  \/ MemRelayReturns

Spec == Init /\ [][Next]_vars

\* the relay endpoint of either revision, explored apart from the checklist
\* endpoints: its handler reads the request and the token only
NextRelay ==
  \/ UpdateDealRates
  \/ RelayReturns
  \/ MemUpdateDealRates
  \/ MemRelayReturns

SpecRelay == Init /\ [][NextRelay]_vars

InitRates ==
  /\ revision \in {"persistent", "memory"}
  /\ tokenSet = TRUE
  /\ fredKeySet \in BOOLEAN
  /\ schema = {CHECKLIST_STATE_PROPERTY, ALT_CHECKLIST_STATE_PROPERTY}
  /\ crm = [d \in Deals |-> JObj(<<>>)]
  /\ checklistStore = JObj(<<>>)
  /\ req = Idle
  /\ lastSave = [d \in Deals |-> NoSave]
  /\ fred = [i \in Calls |-> NoCall]
  /\ rates = RatesIdle

NextRates ==
  \/ GetRates
  \/ FredSettles

SpecRates == InitRates /\ [][NextRates]_vars

\* ------------------------------------------------------------------------
\* Properties
\* ------------------------------------------------------------------------
DealText(d) == JStr(NatToText(d))

\* the request served last is a successful checklist read of deal d
ReadOk(d) ==
  /\ req.pc = "done"
  /\ req.ep = "getChecklist"
  /\ req.status = 200
  /\ GetProp(req.body, kDealId) = DealText(d)

\* the last upstream PATCH of the request
LastPatch == req.patches[Len(req.patches)]

\* an HTTP status outside 2xx
Non2xx(status) == status > 0 /\ ~Ok(status)

\* C1: after a checklist save of deal d with itemStatuses S has answered
\* success, and with no other write to d since, a read of d returns
\* itemStatuses equal to S.
C1_RoundTrip ==
  \A d \in Deals :
    (ReadOk(d) /\ lastSave[d].saved)
      => GetProp(req.out, kItemStatuses) = lastSave[d].itemStatuses

\* C2: after a successful checklist save of deal d whose markComplete is
\* false or absent, and with no other write to d since, a read of d returns
\* isSaved = false.
C2_PartialSaveReadsUnsaved ==
  \A d \in Deals :
    (ReadOk(d) /\ lastSave[d].saved /\ ~lastSave[d].markComplete)
      => GetProp(req.out, kIsSaved) = JBool(FALSE)

\* a deal with no saved checklist state: nothing was ever written for it
Unsaved(d) == crm[d] = JObj(<<>>) /\ ~HasKey(checklistStore, NatToText(d))

\* C3: a read of a deal with no saved checklist state returns the empty
\* object.
C3_UnknownDealReadsEmpty ==
  \A d \in Deals : (ReadOk(d) /\ Unsaved(d)) => req.out = JObj(<<>>)

RateKeys == {kSOFR, kPRIME, kTREASURY5Y, kTREASURY10Y}

\* C4: once the rates request is answered, if any series call got a non-2xx
\* status the answer is a 500 that holds none of the rate fields.
C4_NoPartialRates ==
  (rates.pc = "done" /\ \E i \in Calls : Non2xx(fred[i].answer.status))
    => /\ rates.status = 500
       /\ \A k \in RateKeys : ~HasKey(rates.out, k)

\* a 500 was sent although another series call returned a number
C4_Witness ==
  /\ rates.pc = "done"
  /\ rates.status = 500
  /\ \E i \in Calls : Non2xx(fred[i].answer.status)
  /\ \E i \in Calls : fred[i].state = "fulfilled" /\ fred[i].value.t = "number"

\* the number, in hundredths, an observation text of the model stands for
Hundredths(obs) ==
  CASE obs = JStr(<<"5", ".", "3", "3">>) -> 533
    [] obs = JStr(<<"4">>) -> 400

IsNumeric(obs) == obs \in {JStr(<<"5", ".", "3", "3">>), JStr(<<"4">>)}

\* the response field of each series call, in the order of SeriesIds
FieldOf == <<kSOFR, kPRIME, kTREASURY5Y, kTREASURY10Y>>

\* the four calls got 2xx, call i reports the sentinel and the others numbers
OneSentinel(i) ==
  /\ \A j \in Calls : fred[j].answer.status = 200
  /\ fred[i].answer.obs = JStr(<<".">>)
  /\ \A j \in Calls \ {i} : IsNumeric(fred[j].answer.obs)

\* C5: when the four calls succeed and exactly one series reports the
\* sentinel ".", the answer is a 200 with null in the field of that series
\* and the parsed number of each other series in its own field.
C5_SentinelIsNullForItsField ==
  \A i \in Calls :
    OneSentinel(i)
      => /\ rates.pc = "done"
         /\ rates.status = 200
         /\ GetProp(rates.out, FieldOf[i]) = JNull
         /\ \A j \in Calls \ {i} :
              GetProp(rates.out, FieldOf[j]) = JNum(Hundredths(fred[j].answer.obs))

\* DGS5 reported the sentinel, the other three series two different numbers
C5_Witness ==
  /\ OneSentinel(3)
  /\ fred[4].answer.obs = JStr(<<"4">>)
  /\ fred[1].answer.obs = JStr(<<"5", ".", "3", "3">>)
  /\ rates.pc = "done"

\* the relay request lacks dealId or properties
RelayInputMissing ==
  /\ req.ep = "updateDealRates"
  /\ \/ ~Truthy(GetProp(req.body, kDealId))
     \/ ~Truthy(GetProp(req.body, kProperties))

\* C6: a relay request without dealId or without properties is answered
\* 400 and issues no upstream request.
C6_RelayRejectsMissingInput ==
  RelayInputMissing => (req.pc = "done" /\ req.status = 400 /\ req.patches = <<>>)

\* a relay request with a dealId and no properties was answered
C6_Witness ==
  /\ RelayInputMissing
  /\ Truthy(GetProp(req.body, kDealId))
  /\ req.pc = "done"
  /\ tokenSet

\* C7: a checklist save issues the fallback PATCH only when the primary
\* state property does not exist in the portal.
C7_FallbackOnlyForMissingProperty ==
  (req.ep = "postChecklist" /\ Len(req.patches) >= 2)
    => CHECKLIST_STATE_PROPERTY \notin PortalProperties

\* C8: the write endpoints answer with the status of the last upstream
\* PATCH when that status is not 2xx, and answer success only when the last
\* PATCH returned 2xx.
C8_StatusPassThrough ==
  (req.pc = "done" /\ req.ep \in {"postChecklist", "updateDealRates"})
    => /\ (req.patches # <<>> /\ Non2xx(LastPatch.status))
            => req.status = LastPatch.status
       /\ GetProp(req.out, kSuccess) = JBool(TRUE)
            => (req.patches # <<>> /\ Ok(LastPatch.status))

\* a save fell back, and the two attempts failed with different statuses
C8_Witness ==
  /\ req.pc = "done"
  /\ req.ep = "postChecklist"
  /\ Len(req.patches) = 2
  /\ req.patches[1].status = 400
  /\ req.patches[2].status = 429

AllSettled == \A i \in Calls : fred[i].state \in {"fulfilled", "rejected"}

\* C9: the rates request is answered only when its four series calls have
\* settled.
C9_AnswerAfterAllSettle == rates.pc = "done" => AllSettled

\* C9, amended: a success is sent only when the four calls have fulfilled;
\* a 500 is sent as soon as one call is rejected, whatever the state of the
\* others; while no call is rejected and one is pending, nothing is sent.
C9_AnswerAtFirstFailure ==
  /\ (rates.pc = "done" /\ rates.status = 200)
       => \A i \in Calls : fred[i].state = "fulfilled"
  /\ (rates.pc = "done" /\ rates.status = 500)
       => \E i \in Calls : fred[i].state = "rejected"
  /\ rates.pc = "waiting"
       => /\ \A i \in Calls : fred[i].state # "rejected"
          /\ \E i \in Calls : fred[i].state = "pending"

\* the 500 was sent while three calls were still pending
C9_Witness ==
  /\ rates.pc = "done"
  /\ rates.status = 500
  /\ Cardinality({i \in Calls : fred[i].state = "pending"}) = 3

\* C10: every PATCH of a checklist save carries the state blob and the
\* complete flag; the flag is "true" and the overall status is "Complete"
\* when the caller marks complete, and otherwise the flag is "false" and the
\* overall status is no part of the write.
C10_PatchContents ==
  req.ep = "postChecklist" =>
    \A i \in 1..Len(req.patches) :
      LET p == req.patches[i].props
          marked == Truthy(GetProp(req.body, kMarkComplete))
      IN /\ \/ GetProp(p, CHECKLIST_STATE_PROPERTY) = JStr(Stringify(StateOf(req.body)))
            \/ GetProp(p, ALT_CHECKLIST_STATE_PROPERTY) = JStr(Stringify(StateOf(req.body)))
         /\ GetProp(p, CHECKLIST_COMPLETE_PROPERTY)
              = JStr(IF marked THEN TxtTrue ELSE TxtFalse)
         /\ HasKey(p, DEAL_OVERALL_STATUS_PROPERTY) <=> marked
         /\ marked => GetProp(p, DEAL_OVERALL_STATUS_PROPERTY) = JStr(TxtComplete)

\* the state property a PATCH of a checklist save writes
Targets(p, stateProp) ==
  /\ HasKey(p.props, stateProp)
  /\ \A q \in {CHECKLIST_STATE_PROPERTY, ALT_CHECKLIST_STATE_PROPERTY} \ {stateProp} :
       ~HasKey(p.props, q)

\* a checklist save served by patchWithStatePropertyFallback
FallbackSave == revision = "persistent" /\ req.ep = "postChecklist"

\* C11: a checklist save issues at most two PATCHes, the first against the
\* primary state property and the second against the fallback property and
\* only after the first has returned a non-2xx result; statePropertyUsed in
\* the answer names the property of the PATCH whose result is reported, and
\* on success that property of the deal holds the state blob of the save.
C11_TwoPatchesAndPropertyUsed ==
  FallbackSave =>
    /\ Len(req.patches) <= 2
    /\ Len(req.patches) >= 1 => Targets(req.patches[1], CHECKLIST_STATE_PROPERTY)
    /\ Len(req.patches) = 2
         => /\ Targets(req.patches[2], ALT_CHECKLIST_STATE_PROPERTY)
            /\ Non2xx(req.patches[1].status)
    /\ (req.pc = "done" /\ req.patches # <<>> /\ LastPatch.status > 0)
         => /\ HasKey(req.out, kStatePropertyUsed)
            /\ req.status = LastPatch.status
            /\ \E sp \in {CHECKLIST_STATE_PROPERTY, ALT_CHECKLIST_STATE_PROPERTY} :
                 /\ GetProp(req.out, kStatePropertyUsed) = JStr(sp)
                 /\ Targets(LastPatch, sp)
                 /\ GetProp(req.out, kSuccess) = JBool(TRUE)
                      => GetProp(crm[DealOf(GetProp(req.body, kDealId))], sp)
                           = JStr(req.stateJson)
    /\ (req.pc = "done" /\ (req.patches = <<>> \/ LastPatch.status <= 0))
         => ~HasKey(req.out, kStatePropertyUsed)

\* a save succeeded on the fallback property after the primary was refused
C11_Witness ==
  /\ FallbackSave
  /\ req.pc = "done"
  /\ Len(req.patches) = 2
  /\ GetProp(req.out, kSuccess) = JBool(TRUE)
  /\ GetProp(req.out, kStatePropertyUsed) = JStr(ALT_CHECKLIST_STATE_PROPERTY)

====
